---- MODULE Spec2Model ----
(***************************************************************************)
(* Address book service: the address repository (address_utils.py), the    *)
(* request schemas (schemas.py) and the endpoints and exception handlers   *)
(* (main.py) over one table "addresses" (database_and_models.py).          *)
(*                                                                         *)
(* Every request runs in its own database session (db_utils.get_db).  A    *)
(* request is a sequence of steps; each step holds at most one SQL         *)
(* statement together with the commit that ends its transaction, so the    *)
(* steps of concurrent requests interleave exactly where the code leaves   *)
(* one transaction and starts the next.                                    *)
(*                                                                         *)
(* Optional values (None or a value) are sequences of length at most one:  *)
(* << >> is None, << v >> is the value v.  Floats are integers (degrees,   *)
(* kilometres).                                                            *)
(***************************************************************************)
EXTENDS Integers, Sequences, FiniteSets, TLC

\* ---------------------------------------------------------------- bounds
NumProcs == 2
MaxId == 2

Procs == 1..NumProcs
Ids == 1..MaxId

\* ------------------------------------------------------------ HTTP codes
HTTP_200_OK == 200
HTTP_201_CREATED == 201
HTTP_400_BAD_REQUEST == 400
HTTP_404_NOT_FOUND == 404
HTTP_409_CONFLICT == 409
HTTP_422_UNPROCESSABLE_ENTITY == 422
HTTP_500_INTERNAL_SERVER_ERROR == 500
\* outcomes of a direct call of a repository function (no HTTP response is
\* built): it returned a value, or an exception it does not catch left it
RETURNED == 0
RAISED == 1

\* ------------------------------------------------------------------ data
TextFields == {"name", "street", "city", "state", "country"}
CoordFields == {"latitude", "longitude"}
\* the fields of AddressBase, which model_dump() lists
Fields == TextFields \cup CoordFields

None == << >>
Some(v) == << v >>

\* a row of table "addresses" built from a dumped payload and a primary key
Address(id, dump) ==
    [id |-> id,
     name |-> dump.name[1], street |-> dump.street[1], city |-> dump.city[1],
     state |-> dump.state[1], country |-> dump.country[1],
     latitude |-> dump.latitude[1], longitude |-> dump.longitude[1]]

\* ------------------------------------------------------------ validators
validate_latitude(lat) == ~(lat < -90 \/ lat > 90)
validate_longitude(lon) == ~(lon < -180 \/ lon > 180)

\* AddressCreate: every field required, latitude: Latitude, longitude: Longitude
AddressCreate(body) ==
    /\ \A f \in Fields : body[f] # None
    /\ validate_latitude(body.latitude[1])
    /\ validate_longitude(body.longitude[1])

\* AddressUpdate redeclares latitude and longitude as Optional[float] = None,
\* which replaces the annotated Latitude / Longitude types of AddressBase: no
\* validator is left on any field, and every field may be None
AddressUpdate(body) ==
    \A f \in Fields : Len(body[f]) <= 1

\* schemas.Address.model_validate(row): the response schema keeps
\* latitude: Latitude and longitude: Longitude of AddressBase; None (no row)
\* is not an Address
AddressSchema(rows) ==
    /\ rows # None
    /\ validate_latitude(rows[1].latitude)
    /\ validate_longitude(rows[1].longitude)

\* ---------------------------------------------------------------- inputs
Names == {"a", "b"}
\* (latitude, longitude) of create requests; 91 and 270 are out of range
CreateCoords == {<<0, 0>>, <<90, 0>>, <<91, 0>>, <<0, 270>>}
CreateBodies ==
    {[name |-> Some(n), street |-> Some("s"), city |-> Some("c"),
      state |-> Some("t"), country |-> Some("k"),
      latitude |-> Some(c[1]), longitude |-> Some(c[2])] :
        n \in Names, c \in CreateCoords}

\* bodies of update requests: every field absent or one of a few values
UpdateNames == {None, Some("b")}
\* (latitude, longitude) of update requests; 100 and 270 are out of range
UpdateCoords == {<<None, None>>, <<Some(0), None>>, <<Some(100), None>>,
                 <<None, Some(270)>>}
UpdateBodies ==
    {[name |-> n, street |-> None, city |-> None, state |-> None,
      country |-> None, latitude |-> c[1], longitude |-> c[2]] :
        n \in UpdateNames, c \in UpdateCoords}

NoBody == [f \in Fields |-> None]

\* ----------------------------------------------------------------- state
VARIABLES
    addresses,  \* the rows of table "addresses"
    pc,         \* pc[p]: where request p stands
    req,        \* req[p]: the request p serves
    obj,        \* obj[p]: the row held by p's session between two statements
    resp        \* resp[p]: the response of p's request

vars == <<addresses, pc, req, obj, resp>>

NoReq == [op |-> "none", id |-> 0, body |-> NoBody, distance |-> 0,
          latitude |-> 0, longitude |-> 0]
NoResp == [status |-> 0, data |-> << >>]

Init ==
    /\ addresses = {}
    /\ pc = [p \in Procs |-> "idle"]
    /\ req = [p \in Procs |-> NoReq]
    /\ obj = [p \in Procs |-> None]
    /\ resp = [p \in Procs |-> NoResp]

\* ------------------------------------------------------------- the store
\* db.query(Address).filter(Address.id == id).first(): the row or None
first(tbl, id) ==
    IF \E r \in tbl : r.id = id
    THEN Some(CHOOSE r \in tbl : r.id = id)
    ELSE None

\* the primary key an INSERT assigns (INTEGER PRIMARY KEY: largest id + 1)
NewId(tbl) ==
    IF tbl = {} THEN 1
    ELSE (CHOOSE i \in {r.id : r \in tbl} : \A r \in tbl : r.id <= i) + 1

\* the unique constraint left out
NameIsFreeUnchecked(tbl, id, name) == TRUE

\* unique=True on Address.name: no other row has this name
NameIsFree(tbl, id, name) ==
    \A r \in tbl : r.id # id => r.name # name

\* ------------------------------------------------------------- responses
\* create_response / create_error_response with the handler's data
Response(status, data) == [status |-> status, data |-> data]

\* an endpoint's "data=schemas.Address.model_validate(x).model_dump()": a
\* pydantic ValidationError is not an HTTPException and ends in
\* unexpected_exceptions_handler
AddressResponse(status, rows) ==
    IF AddressSchema(rows)
    THEN Response(status, rows)
    ELSE Response(HTTP_500_INTERNAL_SERVER_ERROR, << >>)

\* the keyword parameters of create_error_response
create_error_response == {"message", "status_code", "data"}

\* the keys of the JSON content create_error_response builds
error_content == {"status", "message", "data"}

\* validation_exception_handler answers a RequestValidationError with
\* create_error_response(status_code=422, message=..., errors=...); a keyword
\* the function does not take is a TypeError, which ends in
\* unexpected_exceptions_handler
validation_exception_handler ==
    IF {"status_code", "message", "errors"} \subseteq create_error_response
    THEN Response(HTTP_422_UNPROCESSABLE_ENTITY, << >>)
    ELSE Response(HTTP_500_INTERNAL_SERVER_ERROR, << >>)

\* the request ends: the handler's response is sent
Done(p, r) ==
    /\ pc' = [pc EXCEPT ![p] = "done"]
    /\ resp' = [resp EXCEPT ![p] = r]
    /\ obj' = [obj EXCEPT ![p] = None]

\* ---------------------------------------------------------------- create
\* POST /address/: the body is validated, then create_address builds the
\* record and db.add()s it
CreateRequest(p) ==
    /\ pc[p] = "idle"
    /\ \E body \in CreateBodies :
        /\ req' = [req EXCEPT ![p] = [NoReq EXCEPT !.op = "create", !.body = body]]
        /\ IF AddressCreate(body)
           THEN /\ pc' = [pc EXCEPT ![p] = "create_commit"]
                /\ UNCHANGED <<addresses, obj, resp>>
           ELSE /\ Done(p, validation_exception_handler)
                /\ UNCHANGED addresses

\* db.commit(): the INSERT and its commit; a taken name is an IntegrityError
CreateCommit(p) ==
    /\ pc[p] = "create_commit"
    /\ IF NameIsFree(addresses, 0, req[p].body.name[1])
       THEN /\ NewId(addresses) <= MaxId
            /\ addresses' = addresses \cup
                   {Address(NewId(addresses), req[p].body)}
            /\ obj' = [obj EXCEPT ![p] = Some(Address(NewId(addresses), req[p].body))]
            /\ pc' = [pc EXCEPT ![p] = "create_refresh"]
            /\ UNCHANGED <<req, resp>>
       ELSE /\ Done(p, Response(HTTP_409_CONFLICT, << >>))
            /\ UNCHANGED <<addresses, req>>

\* db.refresh(address_record): the row is read again by its primary key; a
\* row that is gone is an InvalidRequestError, a SQLAlchemyError
CreateRefresh(p) ==
    /\ pc[p] = "create_refresh"
    /\ LET rows == first(addresses, obj[p][1].id) IN
        IF rows = None
        THEN Done(p, Response(HTTP_500_INTERNAL_SERVER_ERROR, << >>))
        ELSE Done(p, AddressResponse(HTTP_201_CREATED, rows))
    /\ UNCHANGED <<addresses, req>>

\* ------------------------------------------------------------------- get
\* GET /address/{address_id}
GetRequest(p) ==
    /\ pc[p] = "idle"
    /\ \E id \in Ids :
        /\ req' = [req EXCEPT ![p] = [NoReq EXCEPT !.op = "get", !.id = id]]
        /\ LET rows == first(addresses, id) IN
            IF rows = None
            THEN Done(p, Response(HTTP_404_NOT_FOUND, << >>))
            ELSE Done(p, AddressResponse(HTTP_200_OK, rows))
    /\ UNCHANGED addresses

\* ---------------------------------------------------------------- update
\* "if v" of the dict comprehension: None, "" and 0 are falsy
truthy(f, v) ==
    /\ v # None
    /\ IF f \in TextFields THEN v[1] # "" ELSE v[1] # 0

\* fields_to_update = {k: v for k, v in address_update.model_dump().items() if v}
fields_to_update(body) == {f \in Fields : truthy(f, body[f])}

\* the row after UPDATE addresses SET <values> : the columns of values are
\* overwritten, the others and the primary key are kept
SetColumns(row, body, columns) ==
    [k \in DOMAIN row |-> IF k \in columns THEN body[k][1] ELSE row[k]]

\* the filter on the id left out
UpdateRowsUnfiltered(tbl, id, body, columns) ==
    {SetColumns(r, body, columns) : r \in tbl}

\* query.filter(Address.id == id).update(values) on the table
UpdateRows(tbl, id, body, columns) ==
    {IF r.id = id THEN SetColumns(r, body, columns) ELSE r : r \in tbl}

\* PUT /address/{address_id}: the body is validated, then update_address runs
\* the UPDATE inside "with db.begin()", which commits when the block is left.
\*   - an empty values dict renders "UPDATE addresses SET  WHERE ...", which
\*     the database rejects: a SQLAlchemyError (500);
\*   - no row with the id: num_updated == 0 (404);
\*   - the new name is another row's: IntegrityError (400).
\* obj[p] keeps the row as this UPDATE left it.
UpdateRequest(p) ==
    /\ pc[p] = "idle"
    /\ \E id \in Ids, body \in UpdateBodies :
        /\ AddressUpdate(body)
        /\ req' = [req EXCEPT ![p] = [NoReq EXCEPT !.op = "update", !.id = id, !.body = body]]
        /\ LET columns == fields_to_update(body) IN
            IF columns = {}
            THEN /\ Done(p, Response(HTTP_500_INTERNAL_SERVER_ERROR, << >>))
                 /\ UNCHANGED addresses
            ELSE IF first(addresses, id) = None
            THEN /\ Done(p, Response(HTTP_404_NOT_FOUND, << >>))
                 /\ UNCHANGED addresses
            ELSE IF "name" \in columns /\ ~NameIsFree(addresses, id, body.name[1])
            THEN /\ Done(p, Response(HTTP_400_BAD_REQUEST, << >>))
                 /\ UNCHANGED addresses
            ELSE /\ addresses' = UpdateRows(addresses, id, body, columns)
                 /\ obj' = [obj EXCEPT ![p] = first(addresses', id)]
                 /\ pc' = [pc EXCEPT ![p] = "update_reread"]
                 /\ UNCHANGED resp

\* "Retrieve the updated address after the transaction is committed": a
\* second query in a new transaction; its result (a row or None) is returned
\* and the endpoint builds the response from it
UpdateReread(p) ==
    /\ pc[p] = "update_reread"
    /\ Done(p, AddressResponse(HTTP_200_OK, first(addresses, req[p].id)))
    /\ UNCHANGED <<addresses, req>>

\* ---------------------------------------------------------------- delete
\* DELETE /address/{address_id}: delete_address first reads the row with
\* get_address (404 when there is none)
DeleteRequest(p) ==
    /\ pc[p] = "idle"
    /\ \E id \in Ids :
        /\ req' = [req EXCEPT ![p] = [NoReq EXCEPT !.op = "delete", !.id = id]]
        /\ LET rows == first(addresses, id) IN
            IF rows = None
            THEN /\ Done(p, Response(HTTP_404_NOT_FOUND, << >>))
            ELSE /\ obj' = [obj EXCEPT ![p] = rows]
                 /\ pc' = [pc EXCEPT ![p] = "delete_commit"]
                 /\ UNCHANGED resp
    /\ UNCHANGED addresses

\* db.delete(db_address); db.commit(): DELETE ... WHERE id = <the id read>.
\* A DELETE that matches no row is not an error (the unit of work only
\* warns about the row count), so the commit succeeds either way.
DeleteCommit(p) ==
    /\ pc[p] = "delete_commit"
    /\ addresses' = {r \in addresses : r.id # obj[p][1].id}
    /\ Done(p, Response(HTTP_200_OK, << >>))
    /\ UNCHANGED req

\* ------------------------------------------------------- proximity query
\* geopy's Point wraps a longitude into [-180, 180) and refuses (ValueError)
\* a latitude outside [-90, 90]
PointIsValid(latitude) == -90 <= latitude /\ latitude <= 90
WrapLongitude(longitude) == ((longitude + 180) % 360) - 180

\* the unit vector of a point whose latitude and longitude are multiples of
\* 90 degrees
Axis(latitude, longitude) ==
    IF latitude = 90 THEN <<0, 0, 1>>
    ELSE IF latitude = -90 THEN <<0, 0, -1>>
    ELSE CASE WrapLongitude(longitude) = 0 -> <<1, 0, 0>>
           [] WrapLongitude(longitude) = -180 -> <<-1, 0, 0>>
           [] WrapLongitude(longitude) = 90 -> <<0, 1, 0>>
           [] WrapLongitude(longitude) = -90 -> <<0, -1, 0>>

\* geo_distance(a, b).km, the geodesic on the WGS-84 ellipsoid, in whole
\* kilometres, between two such points: 0 for the same point, a quarter of
\* the equator (10019) or of a meridian (10002), or half a meridian (20004)
\* between antipodes
geo_distance(a, b) ==
    LET u == Axis(a[1], a[2])
        v == Axis(b[1], b[2])
        dot == u[1] * v[1] + u[2] * v[2] + u[3] * v[3]
    IN  IF dot = 1 THEN 0
        ELSE IF dot = -1 THEN 20004
        ELSE IF a[1] = 0 /\ b[1] = 0 THEN 10019
        ELSE 10002

\* db.query(Address).all(): every row, in primary key order
RECURSIVE all(_, _)
all(tbl, i) ==
    IF i >= NewId(tbl) THEN << >> ELSE first(tbl, i) \o all(tbl, i + 1)

\* whether one row passes the filter of the loop
IsNearby(user_location, address, distance) ==
    geo_distance(user_location, <<address.latitude, address.longitude>>) <= distance

\* the loop of get_nearby_addresses over the rows read
RECURSIVE addresses_within_distance(_, _, _)
addresses_within_distance(rows, user_location, distance) ==
    IF rows = << >> THEN << >>
    ELSE (IF IsNearby(user_location, Head(rows), distance)
          THEN <<Head(rows)>> ELSE << >>)
         \o addresses_within_distance(Tail(rows), user_location, distance)

\* get_nearby_addresses(db, distance, latitude, longitude): the list, or the
\* ValueError of a stored latitude no Point accepts, which the function does
\* not catch (it catches SQLAlchemyError only)
get_nearby_addresses(tbl, distance, latitude, longitude) ==
    IF \E r \in tbl : ~PointIsValid(r.latitude)
    THEN Response(RAISED, << >>)
    ELSE Response(RETURNED,
                  addresses_within_distance(all(tbl, 1), <<latitude, longitude>>, distance))

\* radii and origins of proximity queries
Distances == {0, 10002}
Origins == {<<0, 0>>, <<0, 180>>}
\* (latitude, longitude) of within-distance requests; 91 is out of range
QueryCoords == {<<0, 0>>, <<91, 0>>}

\* a caller of the repository runs the proximity query
NearbyCall(p) ==
    /\ pc[p] = "idle"
    /\ \E d \in Distances, o \in Origins :
        /\ req' = [req EXCEPT ![p] = [NoReq EXCEPT !.op = "nearby", !.distance = d,
                                        !.latitude = o[1], !.longitude = o[2]]]
        /\ Done(p, get_nearby_addresses(addresses, d, o[1], o[2]))
    /\ UNCHANGED addresses

\* the functions module address_utils defines
address_utils ==
    {"create_address", "get_address", "update_address", "delete_address",
     "get_nearby_addresses", "get_all_addresses"}

\* GET /address/within-distance/: latitude and longitude are validated, then
\* the endpoint calls address_utils.get_addresses_within, a name the module
\* does not define: the AttributeError ends in unexpected_exceptions_handler
WithinDistanceRequest(p) ==
    /\ pc[p] = "idle"
    /\ \E d \in Distances, o \in QueryCoords :
        /\ req' = [req EXCEPT ![p] = [NoReq EXCEPT !.op = "within_distance", !.distance = d,
                                        !.latitude = o[1], !.longitude = o[2]]]
        /\ IF ~(validate_latitude(o[1]) /\ validate_longitude(o[2]))
           THEN Done(p, validation_exception_handler)
           ELSE IF "get_addresses_within" \notin address_utils
           THEN Done(p, Response(HTTP_500_INTERNAL_SERVER_ERROR, << >>))
           ELSE LET r == get_nearby_addresses(addresses, d, o[1], o[2]) IN
                IF r.status = RETURNED /\ \A i \in 1..Len(r.data) : AddressSchema(<<r.data[i]>>)
                THEN Done(p, Response(HTTP_200_OK, r.data))
                ELSE Done(p, Response(HTTP_500_INTERNAL_SERVER_ERROR, << >>))
    /\ UNCHANGED addresses

\* the session is closed (get_db) and the worker takes the next request
Finish(p) ==
    /\ pc[p] = "done"
    /\ pc' = [pc EXCEPT ![p] = "idle"]
    /\ req' = [req EXCEPT ![p] = NoReq]
    /\ resp' = [resp EXCEPT ![p] = NoResp]
    /\ UNCHANGED <<addresses, obj>>

\* -------------------------------------------------------- specifications
\* concurrent requests, their steps interleaved in any order
Next ==
    \E p \in Procs :
        \/ CreateRequest(p)
        \/ CreateCommit(p)
        \/ CreateRefresh(p)
        \/ GetRequest(p)
        \/ UpdateRequest(p)
        \/ UpdateReread(p)
        \/ DeleteRequest(p)
        \/ DeleteCommit(p)
        \/ NearbyCall(p)
        \/ WithinDistanceRequest(p)
        \/ Finish(p)

Spec == Init /\ [][Next]_vars

\* no request other than p's is being served
Alone(p) == \A q \in Procs \ {p} : pc[q] = "idle"

\* one caller: a request starts when no other request is being served
NextSerial ==
    \E p \in Procs :
        \/ Alone(p) /\ CreateRequest(p)
        \/ Alone(p) /\ CreateCommit(p)
        \/ Alone(p) /\ CreateRefresh(p)
        \/ Alone(p) /\ GetRequest(p)
        \/ Alone(p) /\ UpdateRequest(p)
        \/ Alone(p) /\ UpdateReread(p)
        \/ Alone(p) /\ DeleteRequest(p)
        \/ Alone(p) /\ DeleteCommit(p)
        \/ Alone(p) /\ NearbyCall(p)
        \/ Alone(p) /\ WithinDistanceRequest(p)
        \/ Alone(p) /\ Finish(p)

SpecSerial == Init /\ [][NextSerial]_vars

\* concurrent create requests only, one per worker
NextCreate ==
    \E p \in Procs :
        \/ CreateRequest(p)
        \/ CreateCommit(p)
        \/ CreateRefresh(p)

SpecCreate == Init /\ [][NextCreate]_vars

\* ================================================================ claims

\* the coordinates a body carries are in range
BodyInRange(body) ==
    /\ body.latitude # None => validate_latitude(body.latitude[1])
    /\ body.longitude # None => validate_longitude(body.longitude[1])

\* C1: every stored address has -90 <= latitude <= 90 and
\* -180 <= longitude <= 180, and no update whose body carries an
\* out-of-range latitude or longitude gets as far as writing
C1_StoredCoordinatesInRange ==
    /\ \A r \in addresses :
        validate_latitude(r.latitude) /\ validate_longitude(r.longitude)
    /\ \A p \in Procs : pc[p] = "update_reread" => BodyInRange(req[p].body)

\* the create requests of name n that passed validation
Creators(n) ==
    {p \in Procs : /\ req[p].op = "create"
                   /\ AddressCreate(req[p].body)
                   /\ req[p].body.name[1] = n}

\* C2: of the concurrent creates of one name (none stored before), exactly
\* one is answered 201 and every other one 409, and no two stored addresses
\* share a name
C2_OneCreatePerName ==
    /\ \A r1, r2 \in addresses : r1.name = r2.name => r1 = r2
    /\ \A n \in Names :
        (Creators(n) # {} /\ \A p \in Creators(n) : pc[p] = "done") =>
            /\ Cardinality({p \in Creators(n) : resp[p].status = HTTP_201_CREATED}) = 1
            /\ \A p \in Creators(n) :
                resp[p].status \in {HTTP_201_CREATED, HTTP_409_CONFLICT}

\* two concurrent creates of one name have ended, one 201 and one 409
C2_Witness ==
    \E p, q \in Procs :
        /\ p # q
        /\ pc[p] = "done" /\ pc[q] = "done"
        /\ req[p].op = "create" /\ req[q].op = "create"
        /\ req[p].body.name = req[q].body.name
        /\ resp[p].status = HTTP_201_CREATED
        /\ resp[q].status = HTTP_409_CONFLICT

\* the step in which p's update request commits its UPDATE
UpdateWrote(p) == pc[p] = "idle" /\ pc'[p] = "update_reread"

\* C3: the write of an update keeps the set of ids, every row other than the
\* target, and every field of the target that the body does not carry
C3_UpdateFrame ==
    [][\A p \in Procs : UpdateWrote(p) =>
        LET id == req'[p].id
            body == req'[p].body
            before == first(addresses, id)
            after == first(addresses', id)
        IN  /\ {r.id : r \in addresses'} = {r.id : r \in addresses}
            /\ Cardinality(addresses') = Cardinality(addresses)
            /\ \A r \in addresses : r.id # id => r \in addresses'
            /\ before # None /\ after # None
            /\ \A f \in Fields : body[f] = None => after[1][f] = before[1][f]
       ]_vars

\* an update that carries a name and no latitude has written, with another
\* row in the table
C3_Witness ==
    \E p \in Procs :
        /\ pc[p] = "update_reread"
        /\ req[p].body.name # None
        /\ req[p].body.latitude = None
        /\ Cardinality(addresses) = 2

\* C4: after a successful update every field the body carries has the
\* body's value in the stored record and in the returned record
C4_UpdateAppliesPresentFields ==
    \A p \in Procs :
        (pc[p] = "done" /\ req[p].op = "update" /\ resp[p].status = HTTP_200_OK) =>
            \A f \in Fields : req[p].body[f] # None =>
                /\ first(addresses, req[p].id) # None
                /\ first(addresses, req[p].id)[1][f] = req[p].body[f][1]
                /\ resp[p].data[1][f] = req[p].body[f][1]

\* C5: the response of an update whose write was committed is built from
\* the record exactly as that update wrote it (obj[p]), whatever the other
\* requests do between the write and the re-read
C5_UpdateReturnsWhatItWrote ==
    [][\A p \in Procs : (pc[p] = "update_reread" /\ pc'[p] = "done") =>
            resp'[p] = AddressResponse(HTTP_200_OK, obj[p])
       ]_vars

\* C6: get, update and delete of an id that is not stored are answered 404
\* and leave the store unchanged
C6_MissingIdIsNotFound ==
    [][\A p \in Procs :
        (/\ pc[p] = "idle"
         /\ req'[p].op \in {"get", "update", "delete"}
         /\ first(addresses, req'[p].id) = None) =>
            /\ pc'[p] = "done"
            /\ resp'[p].status = HTTP_404_NOT_FOUND
            /\ addresses' = addresses
       ]_vars

\* C7: a delete is answered 200 only if its own DELETE removed the row; when
\* the row is gone by then it is answered 404
C7_DeleteReportsItsOwnRemoval ==
    [][\A p \in Procs : (pc[p] = "delete_commit" /\ pc'[p] = "done") =>
            IF first(addresses, obj[p][1].id) # None
            THEN /\ resp'[p].status = HTTP_200_OK
                 /\ first(addresses', obj[p][1].id) = None
            ELSE resp'[p].status = HTTP_404_NOT_FOUND
       ]_vars

\* C8: the proximity query returns, each once, exactly the stored addresses
\* whose distance from the origin is <= d, without error
C8_NearbyIsExact ==
    \A p \in Procs :
        (pc[p] = "done" /\ req[p].op = "nearby") =>
            /\ resp[p].status = RETURNED
            /\ Len(resp[p].data) = Cardinality({resp[p].data[i] : i \in 1..Len(resp[p].data)})
            /\ {resp[p].data[i] : i \in 1..Len(resp[p].data)} =
                 {r \in addresses :
                    geo_distance(<<req[p].latitude, req[p].longitude>>,
                                 <<r.latitude, r.longitude>>) <= req[p].distance}

\* C9: a within-distance request with a latitude in [-90, 90] and a
\* longitude in [-180, 180] is answered 200
C9_WithinDistanceSucceeds ==
    \A p \in Procs :
        (/\ pc[p] = "done"
         /\ req[p].op = "within_distance"
         /\ validate_latitude(req[p].latitude)
         /\ validate_longitude(req[p].longitude)) =>
            resp[p].status = HTTP_200_OK

\* C10: an update of an existing id whose body has every field absent is
\* answered 200 with the record as it was, and changes nothing in the store
C10_EmptyUpdateIsNoOp ==
    [][\A p \in Procs :
        (/\ pc[p] = "idle"
         /\ req'[p].op = "update"
         /\ req'[p].body = NoBody
         /\ first(addresses, req'[p].id) # None) =>
            /\ addresses' = addresses
            /\ \/ pc'[p] = "update_reread"
               \/ /\ pc'[p] = "done"
                  /\ resp'[p] = Response(HTTP_200_OK, first(addresses, req'[p].id))
       ]_vars

\* the request p takes up in this step is rejected by field validation
RejectedByValidation(p) ==
    /\ pc[p] = "idle"
    /\ \/ req'[p].op = "create" /\ ~AddressCreate(req'[p].body)
       \/ /\ req'[p].op = "within_distance"
          /\ ~(validate_latitude(req'[p].latitude) /\ validate_longitude(req'[p].longitude))

\* C11: a request rejected by field validation is answered 422, in an
\* envelope that carries the per-field error list, and stores nothing
C11_ValidationErrorIs422 ==
    [][\A p \in Procs : RejectedByValidation(p) =>
            /\ pc'[p] = "done"
            /\ resp'[p].status = HTTP_422_UNPROCESSABLE_ENTITY
            /\ "errors" \in error_content
            /\ addresses' = addresses
       ]_vars

====
